---- MODULE Spec2Model ----
(***************************************************************************)
(* Model of camera.py, the Raspberry Pi photo booth: the debounced         *)
(* two-button polling loop of main(), overlay_image(), taking_photo() and  *)
(* the try/except/finally of the __main__ block.                           *)
(***************************************************************************)
EXTENDS Integers, Sequences, FiniteSets, TLC

(***************************************************************************)
(* Bounds of the model                                                     *)
(***************************************************************************)
\* the wall clock is counted in half seconds and stops at MaxClock
MaxClock == 14
\* overlays a caller of overlay_image leaves active at the same time
MaxOverlays == 2

\* values the configuration file may give SCREEN_W
ScreenWidths == {640, 800}
\* sizes of the image files handed to overlay_image
ImgWidths == {31, 640, 800, 928, 1600}
ImgHeights == {16, 145, 600}
\* sizes the two asset images, intro_1.png and success_1.png, may have
AssetSizes == {<<640, 480>>, <<928, 145>>}
\* durations overlay_image is called with
Durations == {0, 2, 3}
\* get_base_filename_for_images on its own: the clock readings the calls
\* start from (0 s, 59 s, 3599 s and 86399 s after the midnight of clock 0,
\* in ticks), how far the clock runs on from there, and how many calls
ClockStarts == {0, 118, 7198, 172798}
MaxElapsed == 4
MaxCalls == 3

(***************************************************************************)
(* IEEE-754 double arithmetic, as far as overlay_image uses it:            *)
(*   wpercent = basewidth / float(img.size[0])                             *)
(*   hsize    = int(float(img.size[1]) * float(wpercent))                  *)
(* A double is a record [m |-> bits, e |-> n]: m is the 53-bit mantissa,   *)
(* most significant bit first, and the value is m * 2^(-e).                *)
(***************************************************************************)
MantissaBits == 53
\* the arithmetic below works on limbs of LimbBits bits, so that no
\* intermediate value leaves the 32-bit integers of the model checker
LimbBits == 15
Limb == 2 ^ LimbBits

\* the value of a bit string of at most LimbBits bits
RECURSIVE BitsToInt(_)
BitsToInt(bits) ==
    IF bits = <<>> THEN 0
    ELSE 2 * BitsToInt(SubSeq(bits, 1, Len(bits) - 1)) + bits[Len(bits)]

\* the LimbBits bits of v, 0 <= v < Limb
IntToBits(v) == [i \in 1..LimbBits |-> (v \div (2 ^ (LimbBits - i))) % 2]

\* bits + 1, one bit longer when the carry runs out of the top
Increment(bits) ==
    IF \A i \in 1..Len(bits) : bits[i] = 1
    THEN <<1>> \o [i \in 1..Len(bits) |-> 0]
    ELSE LET k == CHOOSE i \in 1..Len(bits) :
                      bits[i] = 0 /\ \A j \in (i + 1)..Len(bits) : bits[j] = 1
         IN  [i \in 1..Len(bits) |->
                 IF i < k THEN bits[i] ELSE IF i = k THEN 1 ELSE 0]

\* bits without its leading zeros (bits has a 1)
StripZeros(bits) ==
    LET k == CHOOSE i \in 1..Len(bits) :
                 bits[i] = 1 /\ \A j \in 1..(i - 1) : bits[j] = 0
    IN  SubSeq(bits, k, Len(bits))

\* round-to-nearest-even of the mantissa `bits` (value bits * 2^(-e)),
\* given the first dropped bit and whether anything nonzero follows it
RoundEven(bits, e, guard, sticky) ==
    IF guard = 1 /\ (sticky \/ bits[Len(bits)] = 1)
    THEN LET up == Increment(bits)
         IN  IF Len(up) > Len(bits)
             THEN [m |-> SubSeq(up, 1, Len(bits)), e |-> e - 1]
             ELSE [m |-> up, e |-> e]
    ELSE [m |-> bits, e |-> e]

\* 2^i mod b
RECURSIVE Pow2Mod(_, _)
Pow2Mod(i, b) ==
    IF i <= LimbBits THEN (2 ^ i) % b
    ELSE ((Limb % b) * Pow2Mod(i - LimbBits, b)) % b

\* the remainder a * 2^i mod b of the long division a / b after i bits,
\* and the i-th bit of the quotient after the binary point
DivRem(a, b, i) == (a * Pow2Mod(i, b)) % b
DivBit(a, b, i) == (2 * DivRem(a, b, i - 1)) \div b

\* a / float(b) for integers 0 < a < b < Limb
FloatDiv(a, b) ==
    LET z == (CHOOSE i \in 1..(LimbBits + 1) :
                 DivBit(a, b, i) = 1 /\ \A j \in 1..(i - 1) : DivBit(a, b, j) = 0) - 1
    IN  RoundEven([j \in 1..MantissaBits |-> DivBit(a, b, z + j)],
                  z + MantissaBits,
                  DivBit(a, b, z + MantissaBits + 1),
                  DivRem(a, b, z + MantissaBits + 1) # 0)

\* the exact product k * bits for 0 < k < Limb and a mantissa bits, as bits
MulBits(k, bits) ==
    LET p  == [i \in 1..(4 * LimbBits - MantissaBits) |-> 0] \o bits
        L(j) == BitsToInt(SubSeq(p, LimbBits * (j - 1) + 1, LimbBits * j))
        t4 == k * L(4)
        t3 == k * L(3) + t4 \div Limb
        t2 == k * L(2) + t3 \div Limb
        t1 == k * L(1) + t2 \div Limb
    IN  IntToBits(t1 \div Limb) \o IntToBits(t1 % Limb) \o IntToBits(t2 % Limb)
          \o IntToBits(t3 % Limb) \o IntToBits(t4 % Limb)

\* float(k) * x for an integer 0 < k < Limb
FloatMul(k, x) ==
    LET p == StripZeros(MulBits(k, x.m))
        extra == Len(p) - MantissaBits
    IN  IF extra <= 0
        THEN [m |-> p \o [i \in 1..(0 - extra) |-> 0], e |-> x.e - extra]
        ELSE RoundEven(SubSeq(p, 1, MantissaBits), x.e - extra,
                       p[MantissaBits + 1],
                       \E i \in (MantissaBits + 2)..Len(p) : p[i] = 1)

\* int(x) for a double 0 <= x < Limb
FloatToInt(x) ==
    IF x.e >= Len(x.m) THEN 0
    ELSE BitsToInt(SubSeq(x.m, 1, Len(x.m) - x.e))

\* hsize of lines 160-161
Hsize(basewidth, w, h) == FloatToInt(FloatMul(h, FloatDiv(basewidth, w)))

(***************************************************************************)
(* Configuration and constants of the program                              *)
(***************************************************************************)
CAMERA_BUTTON_PIN == "CAMERA_BUTTON_PIN"
EXIT_BUTTON_PIN == "EXIT_BUTTON_PIN"
Pins == {CAMERA_BUTTON_PIN, EXIT_BUTTON_PIN}

\* levels of an input line with its pull-up: low is the pressed button
Low == 0
High == 1

\* o_id = -1 # '-1' indicates there is no overlay
NoOverlay == -1
\* overlay_image(image_path, duration=0, layer=3, mode='RGB')
DefaultLayer == 3
\* overlay_image(intro_image_1, 3) and overlay_image(finished_image, 2)
IntroDuration == 3
SuccessDuration == 2
\* the block size of the camera: width multiple of 32, height of 16
BlockW == 32
BlockH == 16

\* clock ticks in one second
TicksPerSecond == 2

None == "None"

\* the exit status of the process: none while it runs, 0 from sys.exit()
\* without an argument, 1 when an exception reaches the interpreter
NoStatus == -1
ExitOk == 0
ExitError == 1

\* the positions where the process is gone: the sys.exit() of the finally
\* block, a sys.exit() of the module level, an exception nobody caught
Terminated == {"exited", "startup_exit", "crashed"}

\* the module-level steps of a start that reached main(), config file found
StartupDone == <<"import", "read_config", "GPIO.setup", "PiCamera">>

VARIABLES
    pc,                         \* position of the process in camera.py
    TESTMODE_AUTOPRESS_BUTTON,  \* CONFIG['TESTMODE_AUTOPRESS_BUTTON']
    SCREEN_W,                   \* CONFIG['SCREEN_W']
    detect,                     \* pin -> edge detection is enabled
    latched,                    \* pin -> a falling edge is latched
    level,                      \* pin -> level of the line
    photo_button_is_pressed,
    exit_button_is_pressed,
    filename_prefix,
    captured,                   \* the files written by CAMERA.capture, in order
    preview,                    \* the camera preview is running
    overlays,                   \* the handles of the overlays active on the camera
    caller,                     \* who called overlay_image
    duration,                   \* arguments and locals of overlay_image
    layer,
    size,                       \* size of the image file opened
    img,
    pad,
    o_id,
    added,                      \* what was handed to CAMERA.add_overlay
    result,                     \* what the last overlay_image call returned
    before,                     \* the overlays active when it was called
    now,                        \* wall clock, in ticks
    wake,                       \* the tick at which the running sleep() ends
    exc,                        \* the exception raised out of main()
    cleanup,                    \* the calls made by the finally block
    trace,                      \* calls made since the loop was last at its top
    startup,                    \* the module-level steps done, in order
    console,                    \* what the module level and __main__ printed
    status,                     \* the exit status, NoStatus while running
    calls                       \* get_base_filename_for_images: time, result

config == <<TESTMODE_AUTOPRESS_BUTTON, SCREEN_W>>
gpio == <<detect, latched, level>>
buttons == <<photo_button_is_pressed, exit_button_is_pressed>>
frame == <<caller, duration, layer, size, img, pad, o_id, added, before>>
camera == <<preview, overlays, captured>>
process == <<startup, console, status>>
vars == <<pc, config, gpio, buttons, filename_prefix, camera, frame, result,
          now, wake, exc, cleanup, trace, process, calls>>

AllOf(b) == [p \in Pins |-> b]
NoFrame ==
    /\ caller = None /\ duration = 0 /\ layer = 0 /\ size = <<0, 0>>
    /\ img = <<0, 0>> /\ pad = <<0, 0>> /\ o_id = NoOverlay
    /\ added = <<>> /\ before = {}

\* the locals of overlay_image go when it returns
ClearFrame ==
    /\ caller' = None /\ duration' = 0 /\ layer' = 0 /\ size' = <<0, 0>>
    /\ img' = <<0, 0>> /\ pad' = <<0, 0>> /\ o_id' = NoOverlay
    /\ added' = <<>> /\ before' = {}

\* the state when the interpreter starts on the module: the standard imports
\* are done (lines 15-22), nothing else is; the two config values are what
\* camera-config.yaml holds
Init ==
    /\ pc = "import"
    /\ TESTMODE_AUTOPRESS_BUTTON \in BOOLEAN
    /\ SCREEN_W \in ScreenWidths
    /\ detect = AllOf(FALSE)
    /\ latched = AllOf(FALSE)
    /\ level = AllOf(High)
    /\ photo_button_is_pressed = None
    /\ exit_button_is_pressed = None
    /\ filename_prefix = <<>>
    /\ captured = <<>>
    /\ preview = FALSE
    /\ overlays = {}
    /\ NoFrame
    /\ result = NoOverlay
    /\ now = 0
    /\ wake = 0
    /\ exc = None
    /\ cleanup = <<>>
    /\ trace = <<>>
    /\ startup = <<>>
    /\ console = <<>>
    /\ status = NoStatus
    /\ calls = <<>>

(***************************************************************************)
(* The environment: the two buttons and the clock, for as long as the      *)
(* process lives                                                           *)
(***************************************************************************)
\* the falling edge latched whether or not detection is enabled
ButtonPress_queued(p) ==
    /\ pc \notin Terminated
    /\ level[p] = High
    /\ level' = [level EXCEPT ![p] = Low]
    /\ latched' = [latched EXCEPT ![p] = TRUE]
    /\ UNCHANGED <<pc, config, detect, buttons, filename_prefix, camera,
                   frame, result, now, wake, exc, cleanup, trace,
                   process, calls>>

\* a falling edge on the line; GPIO latches it while detection is enabled
ButtonPress(p) ==
    /\ pc \notin Terminated
    /\ level[p] = High
    /\ level' = [level EXCEPT ![p] = Low]
    /\ latched' = [latched EXCEPT ![p] = @ \/ detect[p]]
    /\ UNCHANGED <<pc, config, detect, buttons, filename_prefix, camera,
                   frame, result, now, wake, exc, cleanup, trace,
                   process, calls>>

ButtonRelease(p) ==
    /\ pc \notin Terminated
    /\ level[p] = Low
    /\ level' = [level EXCEPT ![p] = High]
    /\ UNCHANGED <<pc, config, detect, latched, buttons, filename_prefix,
                   camera, frame, result, now, wake, exc, cleanup, trace,
                   process, calls>>

Tick ==
    /\ pc \notin Terminated
    /\ now < MaxClock
    /\ now' = now + 1
    /\ UNCHANGED <<pc, config, gpio, buttons, filename_prefix, camera, frame,
                   result, wake, exc, cleanup, trace, process, calls>>

(***************************************************************************)
(* The module level: imports, config file, GPIO and camera (lines 25-106)  *)
(***************************************************************************)
\* lines 25-29: the four additional imports succeed
ImportModules ==
    /\ pc = "import"
    /\ startup' = Append(startup, "import")
    /\ pc' = "config"
    /\ UNCHANGED <<config, gpio, buttons, filename_prefix, camera, frame,
                   result, now, wake, exc, cleanup, trace, console, status,
                   calls>>

\* lines 31-43: except ImportError: print the error and the pip command,
\* sys.exit()
ImportFails ==
    /\ pc = "import"
    /\ console' = Append(console, "ERROR: missing module")
    /\ status' = ExitOk
    /\ pc' = "startup_exit"
    /\ UNCHANGED <<config, gpio, buttons, filename_prefix, camera, frame,
                   result, now, wake, exc, cleanup, trace, startup, calls>>

\* line 52: camera-config.yaml exists
ConfigFound ==
    /\ pc = "config"
    /\ pc' = "read_config"
    /\ UNCHANGED <<config, gpio, buttons, filename_prefix, camera, frame,
                   result, now, wake, exc, cleanup, trace, process, calls>>

\* lines 52-55: it does not: it is copied from camera-config.example.yaml
CopyExample ==
    /\ pc = "config"
    /\ pc' = "read_config"
    /\ UNCHANGED <<config, gpio, buttons, filename_prefix, camera, frame,
                   result, now, wake, exc, cleanup, trace, process, calls>>

\* lines 55, 58: copy2() or open() raises (no example file, no permission):
\* nobody catches it
ConfigUnreadable ==
    /\ pc \in {"config", "read_config"}
    /\ status' = ExitError
    /\ pc' = "crashed"
    /\ UNCHANGED <<config, gpio, buttons, filename_prefix, camera, frame,
                   result, now, wake, exc, cleanup, trace, startup, console,
                   calls>>

\* lines 58-78: the file is read and holds every required key
LoadConfig ==
    /\ pc = "read_config"
    /\ startup' = Append(startup, "read_config")
    /\ pc' = "setup"
    /\ UNCHANGED <<config, gpio, buttons, filename_prefix, camera, frame,
                   result, now, wake, exc, cleanup, trace, console, status,
                   calls>>

\* the missing key reported and passed over, without the sys.exit()
ConfigMissingKey_passes ==
    /\ pc = "read_config"
    /\ startup' = Append(startup, "read_config")
    /\ console' = Append(console, "ERROR: configuration item not found")
    /\ pc' = "setup"
    /\ UNCHANGED <<config, gpio, buttons, filename_prefix, camera, frame,
                   result, now, wake, exc, cleanup, trace, status, calls>>

\* lines 58-87: the file is read, a required key is not in it:
\* except KeyError: print the error, sys.exit()
ConfigMissingKey ==
    /\ pc = "read_config"
    /\ startup' = Append(startup, "read_config")
    /\ console' = Append(console, "ERROR: configuration item not found")
    /\ status' = ExitOk
    /\ pc' = "startup_exit"
    /\ UNCHANGED <<config, gpio, buttons, filename_prefix, camera, frame,
                   result, now, wake, exc, cleanup, trace, calls>>

\* lines 58-87: yaml.safe_load raises YAMLError: it is printed, CONFIG stays
\* {}, the first required key raises KeyError: print the error, sys.exit()
ConfigParseFails ==
    /\ pc = "read_config"
    /\ startup' = Append(startup, "read_config")
    /\ console' = console \o <<"YAMLError",
                               "ERROR: configuration item not found">>
    /\ status' = ExitOk
    /\ pc' = "startup_exit"
    /\ UNCHANGED <<config, gpio, buttons, filename_prefix, camera, frame,
                   result, now, wake, exc, cleanup, trace, calls>>

\* lines 58-67: yaml.safe_load returns no mapping (None for an empty file):
\* CONFIG['CAMERA_BUTTON_PIN'] raises TypeError, which nobody catches
ConfigNotMapping ==
    /\ pc = "read_config"
    /\ startup' = Append(startup, "read_config")
    /\ status' = ExitError
    /\ pc' = "crashed"
    /\ UNCHANGED <<config, gpio, buttons, filename_prefix, camera, frame,
                   result, now, wake, exc, cleanup, trace, console, calls>>

\* lines 98-100: GPIO.setmode, GPIO.setup of both pins as pulled-up inputs
SetupPins ==
    /\ pc = "setup"
    /\ startup' = Append(startup, "GPIO.setup")
    /\ pc' = "camera"
    /\ UNCHANGED <<config, gpio, buttons, filename_prefix, camera, frame,
                   result, now, wake, exc, cleanup, trace, console, status,
                   calls>>

\* lines 102-106: CAMERA = picamera.PiCamera() and its four settings; the
\* __main__ block is reached
OpenCamera ==
    /\ pc = "camera"
    /\ startup' = Append(startup, "PiCamera")
    /\ pc' = "main"
    /\ UNCHANGED <<config, gpio, buttons, filename_prefix, camera, frame,
                   result, now, wake, exc, cleanup, trace, console, status,
                   calls>>

\* line 102: picamera.PiCamera() raises (no camera, camera in use): nobody
\* catches it, and the pins set up before it are not cleaned up
OpenCameraFails ==
    /\ pc = "camera"
    /\ status' = ExitError
    /\ pc' = "crashed"
    /\ UNCHANGED <<config, gpio, buttons, filename_prefix, camera, frame,
                   result, now, wake, exc, cleanup, trace, startup, console,
                   calls>>

(***************************************************************************)
(* overlay_image(image_path, duration, layer, mode)                        *)
(***************************************************************************)
\* lines 157-162: the size of img after the optional resize
Resize(s, screen_w) ==
    IF s[1] > screen_w
    THEN <<screen_w, Hsize(screen_w, s[1], s[2])>>
    ELSE s

\* padding that always adds a block
PadSize_extra(s) ==
    << ((s[1] + BlockW) \div BlockW) * BlockW,
       ((s[2] + BlockH) \div BlockH) * BlockH >>

\* lines 174-177: the size of the padded image
PadSize(s) ==
    << ((s[1] + 31) \div BlockW) * BlockW,
       ((s[2] + 15) \div BlockH) * BlockH >>

\* the handle CAMERA.add_overlay returns: one that no active overlay has
NewHandle == CHOOSE i \in 1..(Cardinality(overlays) + 1) :
                 i \notin overlays /\ \A j \in 1..(i - 1) : j \in overlays

\* the call itself: bind the arguments, enter the function
Call(from, d, l) ==
    /\ caller' = from
    /\ duration' = d
    /\ layer' = l
    /\ before' = overlays
    /\ pc' = "ov_open"
    /\ UNCHANGED <<size, img, pad, o_id, added>>

\* line 155: the sizes Image.open(image_path) may find
ImageFiles(from) ==
    IF from \in {"main", "taking_photo"} THEN AssetSizes
    ELSE ImgWidths \X ImgHeights

\* lines 155-186: open the image, resize it if it is wider than the
\* screen, build the padded copy
OverlayLoad ==
    /\ pc = "ov_open"
    /\ \E s \in ImageFiles(caller) :
          /\ size' = s
          /\ img' = Resize(s, SCREEN_W)
          /\ pad' = PadSize(Resize(s, SCREEN_W))
    /\ pc' = "ov_add"
    /\ UNCHANGED <<config, gpio, buttons, filename_prefix, camera, caller,
                   duration, layer, o_id, added, before, result, now, wake,
                   exc, cleanup, trace, process, calls>>

\* lines 190-191: CAMERA.add_overlay(padded_img_data, size=img.size)
OverlayAdd ==
    /\ pc = "ov_add"
    /\ o_id' = NewHandle
    /\ overlays' = overlays \cup {NewHandle}
    /\ added' = [buffer |-> pad, size |-> img, layer |-> layer]
    /\ trace' = Append(trace, <<"CAMERA", "add_overlay">>)
    /\ pc' = "ov_duration"
    /\ UNCHANGED <<config, gpio, buttons, filename_prefix, preview, captured,
                   caller, duration, layer, size, img, pad, before,
                   result, now, wake, exc, cleanup, process, calls>>

\* the duration 0 treated as a hold, too
OverlayHold_also_zero ==
    /\ pc = "ov_duration"
    /\ IF duration >= 0
       THEN /\ wake' = now + duration * TicksPerSecond
            /\ trace' = Append(trace, <<"overlay_image", "sleep">>)
            /\ pc' = "ov_sleep"
       ELSE /\ pc' = "ov_return"
            /\ UNCHANGED <<wake, trace>>
    /\ UNCHANGED <<config, gpio, buttons, filename_prefix, camera, frame,
                   result, now, exc, cleanup, process, calls>>

\* lines 193-194: if duration > 0: sleep(duration)
OverlayHold ==
    /\ pc = "ov_duration"
    /\ IF duration > 0
       THEN /\ wake' = now + duration * TicksPerSecond
            /\ trace' = Append(trace, <<"overlay_image", "sleep">>)
            /\ pc' = "ov_sleep"
       ELSE /\ pc' = "ov_return"
            /\ UNCHANGED <<wake, trace>>
    /\ UNCHANGED <<config, gpio, buttons, filename_prefix, camera, frame,
                   result, now, exc, cleanup, process, calls>>

\* sleep(duration) returning at once
OverlayWake_at_once ==
    /\ pc = "ov_sleep"
    /\ wake' = 0
    /\ pc' = "ov_remove"
    /\ UNCHANGED <<config, gpio, buttons, filename_prefix, camera, frame,
                   result, now, exc, cleanup, trace, process, calls>>

\* sleep(duration) returns once the duration has passed
OverlayWake ==
    /\ pc = "ov_sleep"
    /\ now >= wake
    /\ wake' = 0
    /\ pc' = "ov_remove"
    /\ UNCHANGED <<config, gpio, buttons, filename_prefix, camera, frame,
                   result, now, exc, cleanup, trace, process, calls>>

\* o_id reset without the overlay being removed
OverlayRemove_keeps ==
    /\ pc = "ov_remove"
    /\ o_id' = NoOverlay
    /\ trace' = Append(trace, <<"CAMERA", "remove_overlay">>)
    /\ pc' = "ov_return"
    /\ UNCHANGED <<config, gpio, buttons, filename_prefix, camera,
                   caller, duration, layer, size, img, pad, added, before,
                   result, now, wake, exc, cleanup, process, calls>>

\* lines 195-196: CAMERA.remove_overlay(o_id); o_id = -1
OverlayRemove ==
    /\ pc = "ov_remove"
    /\ overlays' = overlays \ {o_id}
    /\ o_id' = NoOverlay
    /\ trace' = Append(trace, <<"CAMERA", "remove_overlay">>)
    /\ pc' = "ov_return"
    /\ UNCHANGED <<config, gpio, buttons, filename_prefix, preview, captured,
                   caller, duration, layer, size, img, pad, added, before,
                   result, now, wake, exc, cleanup, process, calls>>

\* where overlay_image returns to
ReturnTo(from) ==
    CASE from = "main" -> "add_event_detect"
      [] from = "taking_photo" -> "check_testmode_break"
      [] OTHER -> "caller"

\* line 198: return o_id
OverlayReturn ==
    /\ pc = "ov_return"
    /\ result' = o_id
    /\ pc' = ReturnTo(caller)
    /\ ClearFrame
    /\ UNCHANGED <<config, gpio, buttons, filename_prefix, camera, now, wake,
                   exc, cleanup, trace, process, calls>>

(***************************************************************************)
(* get_base_filename_for_images() and taking_photo(filename_prefix)        *)
(***************************************************************************)
\* strings are sequences of one-character strings
DigitChars == <<"0", "1", "2", "3", "4", "5", "6", "7", "8", "9">>
\* the decimal digits of n, zero-padded to the width
Pad(n, width) ==
    [i \in 1..width |-> DigitChars[((n \div (10 ^ (width - i))) % 10) + 1]]
DigitValue(c) == CHOOSE d \in 0..9 : DigitChars[d + 1] = c

\* line 138: str(datetime.datetime.now()), 'YYYY-MM-DD HH:MM:SS.ffffff', and
\* without the fraction when the microseconds are 0; clock 0 is the midnight
\* that begins 2000-01-01
DatetimeStr(t) ==
    LET sec == t \div TicksPerSecond
        micro == (t % TicksPerSecond) * (1000000 \div TicksPerSecond)
    IN  Pad(2000, 4) \o <<"-">> \o Pad(1, 2) \o <<"-">>
        \o Pad(1 + sec \div 86400, 2) \o <<" ">>
        \o Pad((sec \div 3600) % 24, 2) \o <<":">>
        \o Pad((sec \div 60) % 60, 2) \o <<":">> \o Pad(sec % 60, 2)
        \o (IF micro = 0 THEN <<>> ELSE <<".">> \o Pad(micro, 6))

\* line 138: .split('.')[0]
BeforeDot(s) ==
    IF \E i \in 1..Len(s) : s[i] = "."
    THEN LET k == CHOOSE i \in 1..Len(s) :
                      s[i] = "." /\ \A j \in 1..(i - 1) : s[j] # "."
         IN  SubSeq(s, 1, k - 1)
    ELSE s

\* lines 139-140: .replace(old, new)
Replace(s, old, new) == [i \in 1..Len(s) |-> IF s[i] = old THEN new ELSE s[i]]

\* the time kept with its microseconds, without the split at the '.'
Timestamp_with_fraction(t) ==
    Replace(Replace(DatetimeStr(t), " ", "_"), ":", "-")

\* lines 138-140: base_filename, the wall clock truncated to the second as
\* 'YYYY-MM-DD_HH-MM-SS'
Timestamp(t) ==
    Replace(Replace(BeforeDot(DatetimeStr(t)), " ", "_"), ":", "-")

\* line 142: REAL_PATH + '/' + SAVE_RAW_IMAGES_FOLDER + '/' + base_filename
get_base_filename_for_images(t) ==
    <<"REAL_PATH", "/", "SAVE_RAW_IMAGES_FOLDER", "/", Timestamp(t)>>

\* lines 209-212: filename = filename_prefix + '.jpg'; CAMERA.annotate_text = ''
ClearAnnotation ==
    /\ pc = "taking_photo"
    /\ trace' = Append(trace, <<"CAMERA", "clear_annotation">>)
    /\ pc' = "capture"
    /\ UNCHANGED <<config, gpio, buttons, filename_prefix, camera, frame,
                   result, now, wake, exc, cleanup, process, calls>>

\* lines 213-216: CAMERA.capture(filename) writes the file
Capture ==
    /\ pc = "capture"
    /\ captured' = Append(captured, Append(filename_prefix, ".jpg"))
    /\ trace' = Append(trace, <<"CAMERA", "capture">>)
    /\ pc' = "success"
    /\ UNCHANGED <<config, gpio, buttons, filename_prefix, preview, overlays,
                   frame, result, now, wake, exc, cleanup, process, calls>>

\* the failure caught inside taking_photo and the function going on
CaptureFails_caught ==
    /\ pc = "capture"
    /\ exc' = "PiCameraError"
    /\ trace' = Append(trace, <<"CAMERA", "capture_failed">>)
    /\ pc' = "success"
    /\ UNCHANGED <<config, gpio, buttons, filename_prefix, camera, frame,
                   result, now, wake, cleanup, process, calls>>

\* line 213: the camera rejects the request; nothing in main() catches it
CaptureFails ==
    /\ pc = "capture"
    /\ exc' = "PiCameraError"
    /\ trace' = Append(trace, <<"CAMERA", "capture_failed">>)
    /\ pc' = "finally"
    /\ UNCHANGED <<config, gpio, buttons, filename_prefix, camera, frame,
                   result, now, wake, cleanup, process, calls>>

\* the success overlay shown without a duration
ShowSuccess_stays ==
    /\ pc = "success"
    /\ Call("taking_photo", 0, DefaultLayer)
    /\ UNCHANGED <<config, gpio, buttons, filename_prefix, camera, result,
                   now, wake, exc, cleanup, trace, process, calls>>

\* lines 217-218: overlay_image(finished_image, 2)
ShowSuccess ==
    /\ pc = "success"
    /\ Call("taking_photo", SuccessDuration, DefaultLayer)
    /\ UNCHANGED <<config, gpio, buttons, filename_prefix, camera, result,
                   now, wake, exc, cleanup, trace, process, calls>>

(***************************************************************************)
(* main()                                                                  *)
(***************************************************************************)
\* lines 226-237: banner, health_test_required_folders(), start_preview
StartPreview ==
    /\ pc = "main"
    /\ preview' = TRUE
    /\ pc' = "intro"
    /\ UNCHANGED <<config, gpio, buttons, filename_prefix, overlays, captured,
                   frame, result, now, wake, exc, cleanup, trace,
                   process, calls>>

\* the intro overlay shown without a duration
ShowIntro_stays ==
    /\ pc = "intro"
    /\ Call("main", 0, DefaultLayer)
    /\ UNCHANGED <<config, gpio, buttons, filename_prefix, camera, result,
                   now, wake, exc, cleanup, trace, process, calls>>

\* lines 240-241: overlay_image(intro_image_1, 3)
ShowIntro ==
    /\ pc = "intro"
    /\ Call("main", IntroDuration, DefaultLayer)
    /\ UNCHANGED <<config, gpio, buttons, filename_prefix, camera, result,
                   now, wake, exc, cleanup, trace, process, calls>>

\* GPIO.add_event_detect(pin, GPIO.FALLING) on both pins
AddBoth ==
    /\ detect' = AllOf(TRUE)
    /\ latched' = AllOf(FALSE)
    /\ trace' = trace \o << <<CAMERA_BUTTON_PIN, "add_event_detect">>,
                            <<EXIT_BUTTON_PIN, "add_event_detect">> >>

\* lines 246-247
AddEventDetect ==
    /\ pc = "add_event_detect"
    /\ AddBoth
    /\ pc' = "loop"
    /\ UNCHANGED <<config, level, buttons, filename_prefix, camera, frame,
                   result, now, wake, exc, cleanup, process, calls>>

\* lines 249-251: the top of the loop
LoopTop ==
    /\ pc = "loop"
    /\ photo_button_is_pressed' = None
    /\ exit_button_is_pressed' = None
    /\ trace' = <<>>
    /\ pc' = "camera_event"
    /\ UNCHANGED <<config, gpio, filename_prefix, camera, frame, result, now,
                   wake, exc, cleanup, process, calls>>

\* the latch read and left set
EventDetected_keeps_latch(p, yes, no) ==
    /\ latched' = latched
    /\ trace' = Append(trace, <<p, IF latched[p] THEN "edge" ELSE "no_edge">>)
    /\ pc' = IF latched[p] THEN yes ELSE no

\* GPIO.event_detected(pin): reads the latch of the pin and clears it
EventDetected(p, yes, no) ==
    /\ latched' = [latched EXCEPT ![p] = FALSE]
    /\ trace' = Append(trace, <<p, IF latched[p] THEN "edge" ELSE "no_edge">>)
    /\ pc' = IF latched[p] THEN yes ELSE no

\* line 253
CameraEvent ==
    /\ pc = "camera_event"
    /\ EventDetected(CAMERA_BUTTON_PIN, "camera_debounce", "exit_event")
    /\ UNCHANGED <<config, detect, level, buttons, filename_prefix, camera,
                   frame, result, now, wake, exc, cleanup, process, calls>>

\* sleep(DEBOUNCE_TIME)
Debounce(p, next) ==
    /\ trace' = Append(trace, <<p, "sleep">>)
    /\ pc' = next

\* line 254
CameraDebounce ==
    /\ pc = "camera_debounce"
    /\ Debounce(CAMERA_BUTTON_PIN, "camera_input")
    /\ UNCHANGED <<config, gpio, buttons, filename_prefix, camera, frame,
                   result, now, wake, exc, cleanup, process, calls>>

\* the edge alone marking the button as pressed, whatever the level
CameraInput_any_level ==
    /\ pc = "camera_input"
    /\ photo_button_is_pressed' = "True"
    /\ trace' = Append(trace, <<CAMERA_BUTTON_PIN,
                                 IF level[CAMERA_BUTTON_PIN] = Low
                                 THEN "input_low" ELSE "input_high">>)
    /\ pc' = "exit_event"
    /\ UNCHANGED <<config, gpio, exit_button_is_pressed, filename_prefix,
                   camera, frame, result, now, wake, exc, cleanup,
                   process, calls>>

\* lines 255-256
CameraInput ==
    /\ pc = "camera_input"
    /\ photo_button_is_pressed' =
           IF level[CAMERA_BUTTON_PIN] = Low THEN "True"
           ELSE photo_button_is_pressed
    /\ trace' = Append(trace, <<CAMERA_BUTTON_PIN,
                                 IF level[CAMERA_BUTTON_PIN] = Low
                                 THEN "input_low" ELSE "input_high">>)
    /\ pc' = "exit_event"
    /\ UNCHANGED <<config, gpio, exit_button_is_pressed, filename_prefix,
                   camera, frame, result, now, wake, exc, cleanup,
                   process, calls>>

\* line 258
ExitEvent ==
    /\ pc = "exit_event"
    /\ EventDetected(EXIT_BUTTON_PIN, "exit_debounce", "check_exit")
    /\ UNCHANGED <<config, detect, level, buttons, filename_prefix, camera,
                   frame, result, now, wake, exc, cleanup, process, calls>>

\* line 259
ExitDebounce ==
    /\ pc = "exit_debounce"
    /\ Debounce(EXIT_BUTTON_PIN, "exit_input")
    /\ UNCHANGED <<config, gpio, buttons, filename_prefix, camera, frame,
                   result, now, wake, exc, cleanup, process, calls>>

\* lines 260-261
ExitInput ==
    /\ pc = "exit_input"
    /\ exit_button_is_pressed' =
           IF level[EXIT_BUTTON_PIN] = Low THEN "True"
           ELSE exit_button_is_pressed
    /\ trace' = Append(trace, <<EXIT_BUTTON_PIN,
                                 IF level[EXIT_BUTTON_PIN] = Low
                                 THEN "input_low" ELSE "input_high">>)
    /\ pc' = "check_exit"
    /\ UNCHANGED <<config, gpio, photo_button_is_pressed, filename_prefix,
                   camera, frame, result, now, wake, exc, cleanup,
                   process, calls>>

\* the test-mode flag tested before the exit button
CheckExit_testmode_first ==
    /\ pc = "check_exit"
    /\ IF exit_button_is_pressed # None /\ ~TESTMODE_AUTOPRESS_BUTTON
       THEN /\ pc' = "finally"
            /\ trace' = Append(trace, <<"main", "return">>)
       ELSE /\ pc' = "check_testmode"
            /\ UNCHANGED trace
    /\ UNCHANGED <<config, gpio, buttons, filename_prefix, camera, frame,
                   result, now, wake, exc, cleanup, process, calls>>

\* the capture button tested before the exit button
CheckExit_photo_first ==
    /\ pc = "check_exit"
    /\ IF photo_button_is_pressed # None
       THEN /\ pc' = "remove_event_detect"
            /\ UNCHANGED trace
       ELSE IF exit_button_is_pressed # None
            THEN /\ pc' = "finally"
                 /\ trace' = Append(trace, <<"main", "return">>)
            ELSE /\ pc' = "check_testmode"
                 /\ UNCHANGED trace
    /\ UNCHANGED <<config, gpio, buttons, filename_prefix, camera, frame,
                   result, now, wake, exc, cleanup, process, calls>>

\* lines 263-264: if exit_button_is_pressed is not None: return
CheckExit ==
    /\ pc = "check_exit"
    /\ IF exit_button_is_pressed # None
       THEN /\ pc' = "finally"
            /\ trace' = Append(trace, <<"main", "return">>)
       ELSE /\ pc' = "check_testmode"
            /\ UNCHANGED trace
    /\ UNCHANGED <<config, gpio, buttons, filename_prefix, camera, frame,
                   result, now, wake, exc, cleanup, process, calls>>

\* lines 266-267: if TESTMODE_AUTOPRESS_BUTTON: photo_button_is_pressed = True
CheckTestmode ==
    /\ pc = "check_testmode"
    /\ photo_button_is_pressed' =
           IF TESTMODE_AUTOPRESS_BUTTON THEN "True"
           ELSE photo_button_is_pressed
    /\ pc' = "check_photo"
    /\ UNCHANGED <<config, gpio, exit_button_is_pressed, filename_prefix,
                   camera, frame, result, now, wake, exc, cleanup, trace,
                   process, calls>>

\* lines 270-276: if photo_button_is_pressed is None: sleep(0.1); continue
CheckPhoto ==
    /\ pc = "check_photo"
    /\ IF photo_button_is_pressed = None
       THEN /\ pc' = "loop"
            /\ trace' = Append(trace, <<"main", "idle">>)
       ELSE /\ pc' = "remove_event_detect"
            /\ UNCHANGED trace
    /\ UNCHANGED <<config, gpio, buttons, filename_prefix, camera, frame,
                   result, now, wake, exc, cleanup, process, calls>>

\* the detection removed from the capture button only
RemoveEventDetect_camera_only ==
    /\ pc = "remove_event_detect"
    /\ detect' = [detect EXCEPT ![CAMERA_BUTTON_PIN] = FALSE]
    /\ latched' = [latched EXCEPT ![CAMERA_BUTTON_PIN] = FALSE]
    /\ trace' = Append(trace, <<CAMERA_BUTTON_PIN, "remove_event_detect">>)
    /\ pc' = "filename"
    /\ UNCHANGED <<config, level, buttons, filename_prefix, camera, frame,
                   result, now, wake, exc, cleanup, process, calls>>

\* lines 279-280: GPIO.remove_event_detect on both pins
RemoveEventDetect ==
    /\ pc = "remove_event_detect"
    /\ detect' = AllOf(FALSE)
    /\ latched' = AllOf(FALSE)
    /\ trace' = trace \o << <<CAMERA_BUTTON_PIN, "remove_event_detect">>,
                            <<EXIT_BUTTON_PIN, "remove_event_detect">> >>
    /\ pc' = "filename"
    /\ UNCHANGED <<config, level, buttons, filename_prefix, camera, frame,
                   result, now, wake, exc, cleanup, process, calls>>

\* lines 283-285: filename_prefix = get_base_filename_for_images(), then
\* taking_photo(filename_prefix) is entered
GetFilename ==
    /\ pc = "filename"
    /\ filename_prefix' = get_base_filename_for_images(now)
    /\ calls' = Append(calls, <<now, get_base_filename_for_images(now)>>)
    /\ trace' = Append(trace, <<"main", "filename">>)
    /\ pc' = "taking_photo"
    /\ UNCHANGED <<config, gpio, buttons, camera, frame, result, now, wake,
                   exc, cleanup, process>>

\* the loop going on after a test run
CheckTestmodeBreak_never ==
    /\ pc = "check_testmode_break"
    /\ pc' = "add_event_detect_again"
    /\ UNCHANGED <<config, gpio, buttons, filename_prefix, camera, frame,
                   result, now, wake, exc, cleanup, trace, process, calls>>

\* lines 288-289: if TESTMODE_AUTOPRESS_BUTTON: break
CheckTestmodeBreak ==
    /\ pc = "check_testmode_break"
    /\ IF TESTMODE_AUTOPRESS_BUTTON
       THEN /\ pc' = "finally"
            /\ trace' = Append(trace, <<"main", "break">>)
       ELSE /\ pc' = "add_event_detect_again"
            /\ UNCHANGED trace
    /\ UNCHANGED <<config, gpio, buttons, filename_prefix, camera, frame,
                   result, now, wake, exc, cleanup, process, calls>>

\* the loop polling again without the detection added back
AddEventDetectAgain_forgotten ==
    /\ pc = "add_event_detect_again"
    /\ pc' = "loop"
    /\ UNCHANGED <<config, gpio, buttons, filename_prefix, camera, frame,
                   result, now, wake, exc, cleanup, trace, process, calls>>

\* lines 292-294
AddEventDetectAgain ==
    /\ pc = "add_event_detect_again"
    /\ AddBoth
    /\ pc' = "loop"
    /\ UNCHANGED <<config, level, buttons, filename_prefix, camera, frame,
                   result, now, wake, exc, cleanup, process, calls>>

(***************************************************************************)
(* The __main__ block: try main(), except KeyboardInterrupt, finally       *)
(***************************************************************************)
\* the positions inside main() and the functions it calls
InMain ==
    {"intro", "add_event_detect", "loop", "camera_event", "camera_debounce",
     "camera_input", "exit_event", "exit_debounce", "exit_input",
     "check_exit", "check_testmode", "check_photo", "remove_event_detect",
     "filename", "taking_photo", "capture", "success",
     "check_testmode_break", "add_event_detect_again",
     "ov_open", "ov_add", "ov_duration", "ov_sleep", "ov_remove", "ov_return"}

\* Ctrl-C while main() runs: KeyboardInterrupt is raised where the process is
KeyboardInterrupt ==
    /\ pc \in InMain
    /\ caller \in {None, "main", "taking_photo"}
    /\ exc' = "KeyboardInterrupt"
    /\ pc' = "except"
    /\ UNCHANGED <<config, gpio, buttons, filename_prefix, camera, frame,
                   result, now, wake, cleanup, trace, process, calls>>

\* the handler leaving the process, as if the cleanup were not in a finally
Goodbye_exits ==
    /\ pc = "except"
    /\ pc' = "sys_exit"
    /\ UNCHANGED <<config, gpio, buttons, filename_prefix, camera, frame,
                   result, now, wake, exc, cleanup, trace, process, calls>>

\* lines 300-301: except KeyboardInterrupt: print('Goodbye')
Goodbye ==
    /\ pc = "except"
    /\ console' = Append(console, "Goodbye")
    /\ pc' = "finally"
    /\ UNCHANGED <<config, gpio, buttons, filename_prefix, camera, frame,
                   result, now, wake, exc, cleanup, trace, startup, status,
                   calls>>

\* line 304: CAMERA.stop_preview()
StopPreview ==
    /\ pc = "finally"
    /\ preview' = FALSE
    /\ cleanup' = Append(cleanup, "stop_preview")
    /\ pc' = "close"
    /\ UNCHANGED <<config, gpio, buttons, filename_prefix, overlays, captured,
                   frame, result, now, wake, exc, trace, process, calls>>

\* line 305: CAMERA.close()
CloseCamera ==
    /\ pc = "close"
    /\ cleanup' = Append(cleanup, "close")
    /\ pc' = "gpio_cleanup"
    /\ UNCHANGED <<config, gpio, buttons, filename_prefix, camera, frame,
                   result, now, wake, exc, trace, process, calls>>

\* line 306: GPIO.cleanup()
GpioCleanup ==
    /\ pc = "gpio_cleanup"
    /\ detect' = AllOf(FALSE)
    /\ latched' = AllOf(FALSE)
    /\ cleanup' = Append(cleanup, "gpio_cleanup")
    /\ pc' = "sys_exit"
    /\ UNCHANGED <<config, level, buttons, filename_prefix, camera, frame,
                   result, now, wake, exc, trace, process, calls>>

\* the exit status telling whether an exception stopped main()
SysExit_by_exception ==
    /\ pc = "sys_exit"
    /\ status' = IF exc = None THEN ExitOk ELSE ExitError
    /\ pc' = "exited"
    /\ UNCHANGED <<config, gpio, buttons, filename_prefix, camera, frame,
                   result, now, wake, exc, cleanup, trace, startup, console,
                   calls>>

\* line 307: sys.exit()
SysExit ==
    /\ pc = "sys_exit"
    /\ status' = ExitOk
    /\ pc' = "exited"
    /\ UNCHANGED <<config, gpio, buttons, filename_prefix, camera, frame,
                   result, now, wake, exc, cleanup, trace, startup, console,
                   calls>>

(***************************************************************************)
(* The program                                                             *)
(***************************************************************************)
Next ==
    \/ \E p \in Pins : ButtonPress(p)
    \/ \E p \in Pins : ButtonRelease(p)
    \/ Tick
    \/ ImportModules
    \/ ImportFails
    \/ ConfigFound
    \/ CopyExample
    \/ ConfigUnreadable
    \/ LoadConfig
    \/ ConfigMissingKey
    \/ ConfigParseFails
    \/ ConfigNotMapping
    \/ SetupPins
    \/ OpenCamera
    \/ OpenCameraFails
    \/ StartPreview
    \/ ShowIntro
    \/ OverlayLoad
    \/ OverlayAdd
    \/ OverlayHold
    \/ OverlayWake
    \/ OverlayRemove
    \/ OverlayReturn
    \/ AddEventDetect
    \/ LoopTop
    \/ CameraEvent
    \/ CameraDebounce
    \/ CameraInput
    \/ ExitEvent
    \/ ExitDebounce
    \/ ExitInput
    \/ CheckExit
    \/ CheckTestmode
    \/ CheckPhoto
    \/ RemoveEventDetect
    \/ GetFilename
    \/ ClearAnnotation
    \/ Capture
    \/ CaptureFails
    \/ ShowSuccess
    \/ CheckTestmodeBreak
    \/ AddEventDetectAgain
    \/ KeyboardInterrupt
    \/ Goodbye
    \/ StopPreview
    \/ CloseCamera
    \/ GpioCleanup
    \/ SysExit

Spec == Init /\ [][Next]_vars

(***************************************************************************)
(* overlay_image on its own: a caller that calls it with any duration and  *)
(* any image, and removes the overlays it was handed back                  *)
(***************************************************************************)
InitOverlay ==
    /\ pc = "caller"
    /\ TESTMODE_AUTOPRESS_BUTTON = FALSE
    /\ SCREEN_W \in ScreenWidths
    /\ detect = AllOf(FALSE)
    /\ latched = AllOf(FALSE)
    /\ level = AllOf(High)
    /\ photo_button_is_pressed = None
    /\ exit_button_is_pressed = None
    /\ filename_prefix = <<>>
    /\ captured = <<>>
    /\ preview = TRUE
    /\ overlays = {}
    /\ NoFrame
    /\ result = NoOverlay
    /\ now = 0
    /\ wake = 0
    /\ exc = None
    /\ cleanup = <<>>
    /\ trace = <<>>
    /\ startup = StartupDone
    /\ console = <<>>
    /\ status = NoStatus
    /\ calls = <<>>

\* line 147: overlay_image(image_path, duration, layer, mode)
CallOverlayImage ==
    /\ pc = "caller"
    /\ Cardinality(overlays) < MaxOverlays
    /\ \E d \in Durations : Call("caller", d, DefaultLayer)
    /\ trace' = <<>>
    /\ UNCHANGED <<config, gpio, buttons, filename_prefix, camera, result,
                   now, wake, exc, cleanup, process, calls>>

\* lines 150-151: "overlay will need to be removed later ... remove_overlay(id)"
RemoveLater ==
    /\ pc = "caller"
    /\ \E o \in overlays : overlays' = overlays \ {o}
    /\ UNCHANGED <<pc, config, gpio, buttons, filename_prefix, preview,
                   captured, frame, result, now, wake, exc, cleanup, trace,
                   process, calls>>

NextOverlay ==
    \/ CallOverlayImage
    \/ RemoveLater
    \/ OverlayLoad
    \/ OverlayAdd
    \/ OverlayHold
    \/ OverlayWake
    \/ OverlayRemove
    \/ OverlayReturn
    \/ Tick

SpecOverlay == InitOverlay /\ [][NextOverlay]_vars

(***************************************************************************)
(* get_base_filename_for_images on its own: a caller that calls it at any  *)
(* time of a clock that runs over the end of a second, minute, hour, day   *)
(***************************************************************************)
InitFilename ==
    /\ pc = "filename_caller"
    /\ TESTMODE_AUTOPRESS_BUTTON = FALSE
    /\ SCREEN_W \in ScreenWidths
    /\ detect = AllOf(FALSE)
    /\ latched = AllOf(FALSE)
    /\ level = AllOf(High)
    /\ photo_button_is_pressed = None
    /\ exit_button_is_pressed = None
    /\ filename_prefix = <<>>
    /\ captured = <<>>
    /\ preview = FALSE
    /\ overlays = {}
    /\ NoFrame
    /\ result = NoOverlay
    /\ now \in ClockStarts
    /\ wake = 0
    /\ exc = None
    /\ cleanup = <<>>
    /\ trace = <<>>
    /\ startup = StartupDone
    /\ console = <<>>
    /\ status = NoStatus
    /\ calls = <<>>

\* line 283: filename_prefix = get_base_filename_for_images()
CallFilename ==
    /\ pc = "filename_caller"
    /\ Len(calls) < MaxCalls
    /\ filename_prefix' = get_base_filename_for_images(now)
    /\ calls' = Append(calls, <<now, get_base_filename_for_images(now)>>)
    /\ UNCHANGED <<pc, config, gpio, buttons, camera, frame, result, now,
                   wake, exc, cleanup, trace, process>>

\* the wall clock going on between the calls
ClockRuns ==
    /\ \E s \in ClockStarts : s <= now /\ now < s + MaxElapsed
    /\ now' = now + 1
    /\ UNCHANGED <<pc, config, gpio, buttons, filename_prefix, camera, frame,
                   result, wake, exc, cleanup, trace, process, calls>>

NextFilename ==
    \/ CallFilename
    \/ ClockRuns

SpecFilename == InitFilename /\ [][NextFilename]_vars
(***************************************************************************)
(* Properties                                                              *)
(***************************************************************************)
Has(e) == \E i \in 1..Len(trace) : trace[i] = e
Count(e) == Cardinality({i \in 1..Len(trace) : trace[i] = e})
StartsWith(prefix) ==
    Len(trace) >= Len(prefix) /\ SubSeq(trace, 1, Len(prefix)) = prefix

\* main() has stopped and the finally block runs or has run
Stopped == {"finally", "close", "gpio_cleanup", "sys_exit", "exited"}
\* a capture cycle has been started in this turn of the loop
CaptureStarted ==
    \/ Has(<<CAMERA_BUTTON_PIN, "remove_event_detect">>)
    \/ Has(<<EXIT_BUTTON_PIN, "remove_event_detect">>)
    \/ Has(<<"main", "filename">>)
    \/ Has(<<"CAMERA", "capture">>)
    \/ Has(<<"CAMERA", "capture_failed">>)

TerminalCleanup == <<"stop_preview", "close", "gpio_cleanup">>

\* C1: however main() stops (exit button, test-mode break, KeyboardInterrupt,
\* an uncaught error), the process exits only after the finally block has
\* stopped the preview, closed the camera and released the GPIO, each once
\* and in this order; nothing of it runs while main() is still running.
C1_CleanupBeforeExit ==
    /\ pc = "exited" =>
          cleanup = TerminalCleanup /\ ~preview /\ detect = AllOf(FALSE)
    /\ pc = "sys_exit" => cleanup = TerminalCleanup
    /\ pc = "gpio_cleanup" => cleanup = <<"stop_preview", "close">>
    /\ pc = "close" => cleanup = <<"stop_preview">>
    /\ pc \notin Stopped \ {"finally"} => cleanup = <<>>

\* the process has exited after a KeyboardInterrupt that came while a photo
\* had been taken, with the cleanup done
C1_Witness ==
    /\ pc = "exited"
    /\ exc = "KeyboardInterrupt"
    /\ Len(captured) = 1
    /\ cleanup = TerminalCleanup

\* both buttons were found pressed in this turn of the loop: both edges were
\* latched and both levels read low after the debounce sleep
BothPressed ==
    StartsWith(<< <<CAMERA_BUTTON_PIN, "edge">>, <<CAMERA_BUTTON_PIN, "sleep">>,
                  <<CAMERA_BUTTON_PIN, "input_low">>,
                  <<EXIT_BUTTON_PIN, "edge">>, <<EXIT_BUTTON_PIN, "sleep">>,
                  <<EXIT_BUTTON_PIN, "input_low">> >>)

\* C2: in a poll cycle in which both edges are latched and both levels read
\* low, main() returns: the cycle removes no edge detection, generates no
\* filename and captures nothing.
C2_ExitWinsOverCapture ==
    BothPressed =>
        /\ pc \in {"check_exit", "except"} \cup Stopped
        /\ ~CaptureStarted
        /\ pc \in Stopped /\ exc = None => Has(<<"main", "return">>)

\* main() has returned from a cycle in which both buttons were pressed
C2_Witness ==
    /\ BothPressed
    /\ pc = "finally"
    /\ exc = None
    /\ trace[Len(trace)] = <<"main", "return">>

\* the calls made on pin p in this turn of the loop
OnPin(p) == SelectSeq(trace, LAMBDA e : e[1] = p)
\* the turn of the loop has read pin p, and the button was not pressed
NotPressed(p) ==
    OnPin(p) \in { << <<p, "no_edge">> >>,
                   << <<p, "edge">>, <<p, "sleep">>, <<p, "input_high">> >> }
Bounced(p) ==
    OnPin(p) = << <<p, "edge">>, <<p, "sleep">>, <<p, "input_high">> >>

\* C3: a latched edge whose level, read after the debounce sleep, is not low
\* does not mark its button as pressed; outside test mode a cycle in which no
\* button is marked pressed ends idle, with no capture and no exit. The level
\* of a pin is only ever read right after the debounce sleep that follows its
\* latched edge.
C3_Debounce ==
    /\ Bounced(CAMERA_BUTTON_PIN) /\ pc \in {"exit_event", "exit_debounce",
                                             "exit_input", "check_exit"}
          => photo_button_is_pressed = None
    /\ Bounced(EXIT_BUTTON_PIN) => exit_button_is_pressed = None
    /\ (~TESTMODE_AUTOPRESS_BUTTON /\ NotPressed(CAMERA_BUTTON_PIN)
          /\ NotPressed(EXIT_BUTTON_PIN))
          => /\ ~CaptureStarted
             /\ ~Has(<<"main", "return">>)
             /\ pc \in {"check_exit", "check_testmode", "check_photo",
                        "loop", "except"} \cup Stopped
             /\ pc \in Stopped => exc = "KeyboardInterrupt"
    /\ \A p \in Pins, i \in 1..Len(trace) :
          trace[i] \in {<<p, "input_low">>, <<p, "input_high">>}
             => i > 2 /\ trace[i - 1] = <<p, "sleep">>
                      /\ trace[i - 2] = <<p, "edge">>

\* outside test mode both buttons bounced in one cycle, and the cycle ended
\* idle
C3_Witness ==
    /\ ~TESTMODE_AUTOPRESS_BUTTON
    /\ Bounced(CAMERA_BUTTON_PIN)
    /\ Bounced(EXIT_BUTTON_PIN)
    /\ pc = "loop"
    /\ trace[Len(trace)] = <<"main", "idle">>
\* The statement of C4 as it was made: a test run that ends without an
\* exception has captured exactly one photo, whatever the buttons did.
C4_ExactlyOneCapture ==
    (TESTMODE_AUTOPRESS_BUTTON /\ pc \in Stopped /\ exc = None)
        => Len(captured) = 1

\* C4 (amended): with the test-mode flag set the loop runs one poll cycle
\* and never captures twice. A run that ends without an exception has either
\* found the exit button pressed in that cycle and returned with no capture,
\* or has captured exactly one photo and left the loop at the test-mode break.
C4_OneCycleAtMostOneCapture ==
    TESTMODE_AUTOPRESS_BUTTON =>
        /\ Len(captured) <= 1
        /\ ~Has(<<"main", "idle">>)
        /\ pc = "loop" =>
              captured = <<>> /\ Has(<<EXIT_BUTTON_PIN, "add_event_detect">>)
        /\ (pc \in Stopped /\ exc = None) =>
              IF exit_button_is_pressed # None
              THEN captured = <<>> /\ trace[Len(trace)] = <<"main", "return">>
              ELSE Len(captured) = 1 /\ trace[Len(trace)] = <<"main", "break">>

\* a test run has ended at the break with its one photo, while both buttons
\* were held down
C4_Witness ==
    /\ TESTMODE_AUTOPRESS_BUTTON
    /\ pc = "exited"
    /\ exc = None
    /\ Len(captured) = 1
    /\ level = AllOf(Low)
    /\ trace[Len(trace)] = <<"main", "break">>

\* C5: the decision of a poll cycle is taken in the order exit, test mode,
\* capture button, idle. A cycle that marked the exit button returns, also
\* in test mode, and starts no capture; test mode requests a capture only in
\* a cycle that did not mark the exit button, and then whatever the capture
\* button did; outside test mode a capture needs the capture button marked;
\* a cycle is idle only when nothing of this applied.
C5_DecisionOrder ==
    /\ exit_button_is_pressed # None =>
          /\ pc \in {"check_exit", "except"} \cup Stopped
          /\ ~CaptureStarted
    /\ pc \in {"check_photo", "remove_event_detect"} =>
          /\ exit_button_is_pressed = None
          /\ TESTMODE_AUTOPRESS_BUTTON => photo_button_is_pressed = "True"
    /\ CaptureStarted =>
          /\ exit_button_is_pressed = None
          /\ photo_button_is_pressed = "True"
          /\ ~TESTMODE_AUTOPRESS_BUTTON =>
                Has(<<CAMERA_BUTTON_PIN, "input_low">>)
    /\ Has(<<"main", "idle">>) =>
          /\ ~TESTMODE_AUTOPRESS_BUTTON
          /\ photo_button_is_pressed = None
          /\ exit_button_is_pressed = None

\* in test mode the exit button was found pressed and main() returned, with
\* no photo taken
C5_Witness ==
    /\ TESTMODE_AUTOPRESS_BUTTON
    /\ exit_button_is_pressed = "True"
    /\ pc = "finally"
    /\ exc = None
    /\ captured = <<>>
    /\ trace[Len(trace)] = <<"main", "return">>

\* C6: at its return statement overlay_image has, for a duration > 0, added
\* an overlay, slept and removed it again, returns -1 and leaves the active
\* overlays as they were at the call; for the duration 0 it has added an
\* overlay and nothing else, and returns the handle of that overlay, which is
\* active.
C6_TimedOrIndefinite ==
    pc = "ov_return" =>
        IF duration > 0
        THEN /\ o_id = NoOverlay
             /\ overlays = before
             /\ trace = << <<"CAMERA", "add_overlay">>,
                           <<"overlay_image", "sleep">>,
                           <<"CAMERA", "remove_overlay">> >>
        ELSE /\ o_id # NoOverlay
             /\ o_id \in overlays
             /\ o_id \notin before
             /\ overlays = before \cup {o_id}
             /\ trace = << <<"CAMERA", "add_overlay">> >>

\* a timed call returns while an overlay of an earlier call with duration 0
\* is still active
C6_Witness ==
    /\ pc = "ov_return"
    /\ duration > 0
    /\ before # {}
    /\ overlays = before
    /\ o_id = NoOverlay

\* The statement of C7 as it was made: in a test run no overlay is active
\* when the terminal cleanup starts.
C7_NoOverlayAtCleanup ==
    (TESTMODE_AUTOPRESS_BUTTON /\ pc = "finally") => overlays = {}

\* main() was interrupted while a timed overlay was on the screen
InterruptedHold ==
    /\ exc = "KeyboardInterrupt"
    /\ trace # <<>>
    /\ trace[Len(trace)] \in {<<"CAMERA", "add_overlay">>,
                              <<"overlay_image", "sleep">>}

\* C7 (amended): in a test run no overlay is active when the terminal
\* cleanup starts, unless a KeyboardInterrupt stopped main() between the
\* add_overlay and the remove_overlay of a timed overlay: then this one
\* overlay is still active when the cleanup starts.
C7_NoOverlayUnlessInterrupted ==
    (TESTMODE_AUTOPRESS_BUTTON /\ pc \in {"except", "finally"}) =>
        /\ ~InterruptedHold => overlays = {}
        /\ InterruptedHold => Cardinality(overlays) = 1

\* a test run reaches the cleanup after the break, its photo taken and both
\* timed overlays gone
C7_Witness ==
    /\ TESTMODE_AUTOPRESS_BUTTON
    /\ pc = "finally"
    /\ exc = None
    /\ Len(captured) = 1
    /\ Has(<<"CAMERA", "remove_overlay">>)
    /\ overlays = {}

\* C8: the padded buffer is as wide as the least multiple of 32 that is not
\* below the width of the (resized) image, and as high as the least multiple
\* of 16 not below its height; CAMERA.add_overlay gets the padded buffer
\* and, as size, the size of the (resized) image.
C8_Padding ==
    pc \in {"ov_add", "ov_duration", "ov_sleep", "ov_remove", "ov_return"} =>
        /\ pad[1] % 32 = 0 /\ pad[1] >= img[1] /\ pad[1] - img[1] < 32
        /\ pad[2] % 16 = 0 /\ pad[2] >= img[2] /\ pad[2] - img[2] < 16
        /\ added # <<>> => added.buffer = pad /\ added.size = img

\* an image wider than the screen was resized, padded in its height and
\* handed to the camera with its unpadded size
C8_Witness ==
    /\ pc = "ov_duration"
    /\ size[1] > SCREEN_W
    /\ img[1] = SCREEN_W
    /\ pad[2] > img[2]
    /\ added.size = img
    /\ added.buffer = pad

\* C9: the image is resized exactly when it is wider than the screen, to
\* the width SCREEN_W and the height floor(height * SCREEN_W / width).
C9_ScaledHeightIsFloor ==
    pc \in {"ov_add", "ov_duration", "ov_sleep", "ov_remove", "ov_return"} =>
        IF size[1] > SCREEN_W
        THEN img = <<SCREEN_W, (size[2] * SCREEN_W) \div size[1]>>
        ELSE img = size

\* the calls of this turn of the loop since the filename was generated
SinceFilename ==
    LET k == CHOOSE i \in 1..Len(trace) : trace[i] = <<"main", "filename">>
    IN  SubSeq(trace, k + 1, Len(trace))

TakingPhotoCalls ==
    << <<"CAMERA", "clear_annotation">>, <<"CAMERA", "capture">>,
       <<"CAMERA", "add_overlay">>, <<"overlay_image", "sleep">>,
       <<"CAMERA", "remove_overlay">> >>

\* the second at which the filename prefix was generated
PrefixSecond ==
    LET t == filename_prefix[5]
        Field(i) == DigitValue(t[i]) * 10 + DigitValue(t[i + 1])
    IN  (Field(9) - 1) * 86400 + Field(12) * 3600 + Field(15) * 60 + Field(18)

C11_CaptureFailureEndsRun ==
    exc = "PiCameraError" =>
        /\ pc \in Stopped
        /\ trace # <<>>
        /\ trace[Len(trace)] = <<"CAMERA", "capture_failed">>
        /\ ~Has(<<"CAMERA", "capture">>)
        /\ ~Has(<<"CAMERA", "add_overlay">>)
        /\ detect = AllOf(FALSE)
        /\ overlays = {}
        /\ pc = "exited" =>
              cleanup = TerminalCleanup /\ ~preview /\ status = ExitOk

\* the process has exited after a capture that the camera rejected
C11_Witness ==
    /\ exc = "PiCameraError"
    /\ pc = "exited"
    /\ cleanup = TerminalCleanup
    /\ captured = <<>>

\* the calls of the capture cycle, from the first remove_event_detect on
SinceRemove ==
    LET k == CHOOSE i \in 1..Len(trace) :
                 trace[i] = <<CAMERA_BUTTON_PIN, "remove_event_detect">>
    IN  SubSeq(trace, k, Len(trace))

\* lines 279-293: what one capture cycle calls, in order
CaptureCycleCalls ==
    << <<CAMERA_BUTTON_PIN, "remove_event_detect">>,
       <<EXIT_BUTTON_PIN, "remove_event_detect">>,
       <<"main", "filename">> >>
    \o TakingPhotoCalls
    \o (IF TESTMODE_AUTOPRESS_BUTTON
           THEN << <<"main", "break">> >>
           ELSE << <<CAMERA_BUTTON_PIN, "add_event_detect">>,
                   <<EXIT_BUTTON_PIN, "add_event_detect">> >>)

\* C12: a capture cycle removes the edge detection from both pins, computes
\* the filename prefix, runs taking_photo and then, outside test mode, adds
\* the edge detection back to both pins and goes back to the top of the loop,
\* in this order. CAMERA.capture runs only while detection is disabled on
\* both pins; outside test mode main() does not stop after a successful
\* capture unless an exception ends it, and when it is back at the top of the
\* loop the whole sequence has run and detection is enabled on both pins.
C12_CaptureCycle ==
    /\ pc = "capture" => detect = AllOf(FALSE)
    /\ Has(<<"CAMERA", "capture">>) =>
          Has(<<CAMERA_BUTTON_PIN, "remove_event_detect">>)
    /\ (exc = None /\ Has(<<CAMERA_BUTTON_PIN, "remove_event_detect">>)) =>
          /\ Len(SinceRemove) <= Len(CaptureCycleCalls)
          /\ SinceRemove = SubSeq(CaptureCycleCalls, 1, Len(SinceRemove))
    /\ (~TESTMODE_AUTOPRESS_BUTTON /\ exc = None
          /\ Has(<<"CAMERA", "capture">>)) =>
          /\ pc \notin Stopped
          /\ pc = "loop" =>
                /\ SinceRemove = CaptureCycleCalls
                /\ detect = AllOf(TRUE)
                /\ overlays = {}
    /\ pc = "add_event_detect_again" => ~TESTMODE_AUTOPRESS_BUTTON
    /\ (pc = "loop" /\ exc = None) => detect = AllOf(TRUE)

\* outside test mode the loop is back at its top after a capture cycle
C12_Witness ==
    /\ ~TESTMODE_AUTOPRESS_BUTTON
    /\ pc = "loop"
    /\ Has(<<"CAMERA", "capture">>)
    /\ SinceRemove = CaptureCycleCalls
    /\ detect = AllOf(TRUE)
    /\ Len(captured) = 1

Printed(m) == \E i \in 1..Len(console) : console[i] = m

\* C13: the module level runs dependency check, config load, hardware setup
\* in this order, and main() only after all three. A missing dependency ends
\* the process before the config file is read; a missing required key or a
\* config file that does not parse ends it before a GPIO pin is set up or
\* the camera is opened: on either error the process exits with no pin set
\* up, no camera opened, no preview and no edge detection.
C13_StartupOrder ==
    /\ Len(startup) <= Len(StartupDone)
    /\ startup = SubSeq(StartupDone, 1, Len(startup))
    /\ pc = "import" => startup = <<>>
    /\ pc \in {"config", "read_config"} => startup = <<"import">>
    /\ pc = "setup" => startup = <<"import", "read_config">>
    /\ pc = "camera" => startup = <<"import", "read_config", "GPIO.setup">>
    /\ pc \in {"main", "except"} \cup InMain \cup Stopped =>
          startup = StartupDone
    /\ Printed("ERROR: missing module") =>
          /\ pc = "startup_exit"
          /\ startup = <<>>
    /\ (Printed("ERROR: configuration item not found")
           \/ Printed("YAMLError")) =>
          /\ pc = "startup_exit"
          /\ startup = <<"import", "read_config">>
    /\ pc = "startup_exit" =>
          /\ Printed("ERROR: missing module")
                \/ Printed("ERROR: configuration item not found")
          /\ \A i \in 1..Len(startup) :
                startup[i] \notin {"GPIO.setup", "PiCamera"}
          /\ ~preview
          /\ detect = AllOf(FALSE)
          /\ overlays = {}
          /\ captured = <<>>

\* the process has exited on a config file that did not parse
C13_Witness ==
    /\ pc = "startup_exit"
    /\ Printed("YAMLError")
    /\ startup = <<"import", "read_config">>

\* the process has exited on a missing dependency, the config file unread
C13_WitnessDependency ==
    /\ pc = "startup_exit"
    /\ Printed("ERROR: missing module")
    /\ startup = <<>>

\* C14: the process that entered main() ends with exit status 0 whether the
\* exit button or a KeyboardInterrupt stopped the loop: both paths run the
\* cleanup and end in the sys.exit() of the finally block; the farewell is
\* printed on the interrupt path and on no other.
C14_SameExitStatus ==
    /\ pc = "exited" => status = ExitOk /\ cleanup = TerminalCleanup
    /\ pc \in {"main", "except"} \cup InMain \cup (Stopped \ {"exited"}) =>
          status = NoStatus
    /\ (pc \in Stopped /\ exc = "KeyboardInterrupt") =>
          console = <<"Goodbye">>
    /\ (pc \in Stopped /\ exc # "KeyboardInterrupt") => console = <<>>
    /\ (pc \in Stopped /\ Has(<<"main", "return">>)) =>
          exc = None /\ exit_button_is_pressed = "True"

\* the process has exited after a KeyboardInterrupt
C14_Witness ==
    /\ pc = "exited"
    /\ exc = "KeyboardInterrupt"
    /\ console = <<"Goodbye">>
    /\ status = ExitOk

\* the process has exited after the exit button
C14_WitnessExitButton ==
    /\ pc = "exited"
    /\ Has(<<"main", "return">>)
    /\ console = <<>>
    /\ status = ExitOk

\* C15: get_base_filename_for_images depends on the wall clock truncated to
\* the second only: two calls in the same second return the same prefix, two
\* calls in different seconds return different prefixes, and every prefix is
\* the install path, the output folder and the time as YYYY-MM-DD_HH-MM-SS.
C15_PrefixBySecond ==
    /\ \A i, j \in 1..Len(calls) :
          (calls[i][1] \div TicksPerSecond = calls[j][1] \div TicksPerSecond)
             <=> calls[i][2] = calls[j][2]
    /\ \A i \in 1..Len(calls) :
          /\ SubSeq(calls[i][2], 1, 4)
                = <<"REAL_PATH", "/", "SAVE_RAW_IMAGES_FOLDER", "/">>
          /\ Len(calls[i][2][5]) = 19
          /\ \A k \in 1..19 : calls[i][2][5][k] \notin {" ", ":", "."}
    /\ calls # <<>> => filename_prefix = calls[Len(calls)][2]

\* three calls at 59.0 s, 59.5 s and 60.0 s: the first two in one second,
\* the third in the next second and the next minute
C15_Witness ==
    /\ Len(calls) = 3
    /\ calls[1][1] = 118 /\ calls[2][1] = 119 /\ calls[3][1] = 120
    /\ calls[1][2] = calls[2][2]
    /\ calls[2][2] # calls[3][2]

\* the steps of the latch of the capture button
CaptureLatchSteps ==
    /\ trace' = Append(trace, <<CAMERA_BUTTON_PIN, "edge">>) =>
          latched[CAMERA_BUTTON_PIN] /\ ~latched'[CAMERA_BUTTON_PIN]
    /\ trace' = Append(trace, <<CAMERA_BUTTON_PIN, "no_edge">>) =>
          ~latched[CAMERA_BUTTON_PIN] /\ ~latched'[CAMERA_BUTTON_PIN]
    /\ (~latched[CAMERA_BUTTON_PIN] /\ latched'[CAMERA_BUTTON_PIN]) =>
          /\ detect[CAMERA_BUTTON_PIN]
          /\ level[CAMERA_BUTTON_PIN] = High
          /\ level'[CAMERA_BUTTON_PIN] = Low
    /\ (pc = "check_photo" /\ pc' = "remove_event_detect"
          /\ ~TESTMODE_AUTOPRESS_BUTTON) =>
          OnPin(CAMERA_BUTTON_PIN)
             = << <<CAMERA_BUTTON_PIN, "edge">>,
                  <<CAMERA_BUTTON_PIN, "sleep">>,
                  <<CAMERA_BUTTON_PIN, "input_low">> >>

\* C16: outside test mode a capture cycle starts only in a turn of the loop
\* whose event_detected found a latched falling edge of the capture button
\* and whose level read after the debounce sleep was low. The latch is set
\* only by a falling edge while detection is enabled and is cleared by the
\* event_detected that reads it: a button held low without a new falling
\* edge, or an edge that failed the debounce check, is not seen by any later
\* turn of the loop.
C16_EdgeTriggered ==
    /\ []((~TESTMODE_AUTOPRESS_BUTTON /\ CaptureStarted) =>
            OnPin(CAMERA_BUTTON_PIN)
               = << <<CAMERA_BUTTON_PIN, "edge">>,
                    <<CAMERA_BUTTON_PIN, "sleep">>,
                    <<CAMERA_BUTTON_PIN, "input_low">>,
                    <<CAMERA_BUTTON_PIN, "remove_event_detect">> >>
               \/ OnPin(CAMERA_BUTTON_PIN)
               = << <<CAMERA_BUTTON_PIN, "edge">>,
                    <<CAMERA_BUTTON_PIN, "sleep">>,
                    <<CAMERA_BUTTON_PIN, "input_low">>,
                    <<CAMERA_BUTTON_PIN, "remove_event_detect">>,
                    <<CAMERA_BUTTON_PIN, "add_event_detect">> >>)
    /\ []((~TESTMODE_AUTOPRESS_BUTTON /\ pc = "check_photo"
             /\ Bounced(CAMERA_BUTTON_PIN)) =>
            photo_button_is_pressed = None)
    /\ [][CaptureLatchSteps]_vars

\* after one capture the button is still held low, and a turn of the loop
\* that found no new edge has ended idle
C16_Witness ==
    /\ ~TESTMODE_AUTOPRESS_BUTTON
    /\ pc = "loop"
    /\ Len(captured) = 1
    /\ level[CAMERA_BUTTON_PIN] = Low
    /\ OnPin(CAMERA_BUTTON_PIN) = << <<CAMERA_BUTTON_PIN, "no_edge">> >>
    /\ Has(<<"main", "idle">>)

\* the step calls, on pin p, the GPIO function named
Calls(p, call) ==
    /\ Len(trace') > Len(trace)
    /\ SubSeq(trace', 1, Len(trace)) = trace
    /\ \E i \in (Len(trace) + 1)..Len(trace') : trace'[i] = <<p, call>>

\* what the state of the detection is when the GPIO functions are called
DetectSteps ==
    \A p \in Pins :
        /\ Calls(p, "add_event_detect") => ~detect[p] /\ detect'[p]
        /\ Calls(p, "remove_event_detect") => detect[p] /\ ~detect'[p]
        /\ (Calls(p, "edge") \/ Calls(p, "no_edge")) => detect[p]
        /\ detect'[p] # detect[p] =>
              \/ Calls(p, "add_event_detect")
              \/ Calls(p, "remove_event_detect")
              \/ pc = "gpio_cleanup"

\* C17: on each pin add_event_detect is called only while detection is
\* disabled, remove_event_detect only while it is enabled, event_detected
\* only while it is enabled, in test mode and outside it; detection changes
\* by these calls and by the final GPIO.cleanup only, so it alternates.
C17_DetectionAlternates ==
    /\ [](pc \in {"add_event_detect", "add_event_detect_again"} =>
            detect = AllOf(FALSE))
    /\ [](pc = "remove_event_detect" => detect = AllOf(TRUE))
    /\ [](pc \in {"camera_event", "exit_event"} => detect = AllOf(TRUE))
    /\ [][DetectSteps]_vars

\* detection was added, removed for a capture and added again, and the loop
\* queries the capture button
C17_Witness ==
    /\ pc = "camera_event"
    /\ Len(captured) = 1
    /\ detect = AllOf(TRUE)

\* the same in test mode: detection added once, removed once, main() left
C17_WitnessTestmode ==
    /\ TESTMODE_AUTOPRESS_BUTTON
    /\ Has(<<"main", "break">>)
    /\ detect = AllOf(FALSE)

\* what happens to the latch of a pin while detection is removed from it
DiscardSteps ==
    \A p \in Pins :
        /\ (~detect[p] /\ level[p] = High /\ level'[p] = Low) =>
              ~latched'[p] /\ UNCHANGED <<pc, buttons, captured, trace>>
        /\ Calls(p, "remove_event_detect") => ~latched'[p]
        /\ Calls(p, "add_event_detect") => ~latched'[p]

C19_NoOverwrite ==
    /\ \A i, j \in 1..Len(captured) : i # j => captured[i] # captured[j]
    /\ \A i \in 1..(Len(calls) - 1) :
          /\ calls[i + 1][1] >= calls[i][1] + SuccessDuration * TicksPerSecond
          /\ calls[i + 1][2] # calls[i][2]
    /\ Len(captured) <= Len(calls)
    /\ \A i \in 1..Len(captured) : captured[i] = Append(calls[i][2], ".jpg")
    /\ Len(calls) <= Len(captured) + 1

\* two capture cycles of one run have written two files
C19_Witness ==
    /\ Len(captured) = 2
    /\ Len(calls) = 2
    /\ captured[1] # captured[2]

\* the positions between add_overlay and remove_overlay of a timed overlay
Holding == {"ov_duration", "ov_sleep", "ov_remove"}
\* the positions where the loop polls the buttons and decides
Polling ==
    {"loop", "camera_event", "camera_debounce", "camera_input", "exit_event",
     "exit_debounce", "exit_input", "check_exit", "check_testmode",
     "check_photo"}
IntroCalls ==
    << <<"CAMERA", "add_overlay">>, <<"overlay_image", "sleep">>,
       <<"CAMERA", "remove_overlay">> >>

\* The statement of C20 as it was made: an overlay is active only during a
\* blocking hold inside overlay_image.
C20_OverlayOnlyDuringHold ==
    /\ Cardinality(overlays) <= 1
    /\ overlays # {} => pc \in Holding /\ duration > 0
    /\ pc \in Polling \cup {"capture"} => overlays = {}

\* C20 (amended): at most one overlay is active at any time, and only during
\* a hold inside overlay_image (the 3-second intro hold, once and before
\* edge detection is enabled, or the 2-second success hold) or, when a
\* KeyboardInterrupt has cut such a hold short, in the handler and the
\* cleanup that follow; no overlay is active where the buttons are polled or
\* where CAMERA.capture runs.
C20_OverlayDuringHoldOrInterrupted ==
    /\ Cardinality(overlays) <= 1
    /\ overlays # {} =>
          \/ /\ pc \in Holding
             /\ \/ caller = "main" /\ duration = IntroDuration
                \/ caller = "taking_photo" /\ duration = SuccessDuration
          \/ pc \in {"except"} \cup Stopped /\ InterruptedHold
    /\ pc \in Polling \cup {"capture"} => overlays = {}
    /\ caller = "main" =>
          /\ detect = AllOf(FALSE)
          /\ captured = <<>>
          /\ Len(trace) <= Len(IntroCalls)
          /\ trace = SubSeq(IntroCalls, 1, Len(trace))
    /\ pc = "add_event_detect" => trace = IntroCalls /\ overlays = {}
    /\ (pc \in Polling /\ exc = None) => detect = AllOf(TRUE)

\* outside test mode a KeyboardInterrupt has cut the success hold short: the
\* overlay is active in the handler, after one capture
C20_Witness ==
    /\ ~TESTMODE_AUTOPRESS_BUTTON
    /\ pc = "except"
    /\ Cardinality(overlays) = 1
    /\ Len(captured) = 1
    /\ InterruptedHold

\* the success overlay is active during its hold
C20_WitnessHold ==
    /\ pc = "ov_sleep"
    /\ caller = "taking_photo"
    /\ Cardinality(overlays) = 1
    /\ detect = AllOf(FALSE)
====
